---- MODULE Spec2Model ----
(***************************************************************************)
(* sfs.time.source: the time-domain sound field of a point source (point)  *)
(* and of a point source in a rectangular room, by the mirror image        *)
(* source model (point_image_sources).                                     *)
(*                                                                         *)
(* Numbers.  A float is modelled by an exact extended rational <<n, d>>    *)
(* with d >= 0 in lowest terms; d = 0 holds the IEEE specials: <<1, 0>> is *)
(* inf, <<-1, 0>> is -inf and <<0, 0>> is nan.  The factor 4*pi is kept    *)
(* symbolic: weights and field values are in units of 1/(4*pi).  Lengths   *)
(* are whole units and the norm is rounded down to the unit.               *)
(***************************************************************************)
EXTENDS Integers, Sequences, FiniteSets, TLC

\* ---------------------------------------------------------------- bounds
MaxLen == 2
MaxTime == 3
MaxOrder == 1

\* ------------------------------------------------------------ arithmetic
Abs(n) == IF n < 0 THEN -n ELSE n

Sign(n) == IF n < 0 THEN -1 ELSE IF n > 0 THEN 1 ELSE 0

RECURSIVE GCD(_, _)
GCD(a, b) == IF b = 0 THEN a ELSE GCD(b, a % b)

Frac(n, d) ==
    IF d = 0 THEN <<Sign(n), 0>>
    ELSE LET g == GCD(Abs(n), Abs(d)) IN <<(Sign(d) * n) \div g, Abs(d) \div g>>

Zero == <<0, 1>>
One == <<1, 1>>
Inf == <<1, 0>>
NaN == <<0, 0>>
Int2F(n) == <<n, 1>>

IsNaN(a) == a = NaN
IsFinite(a) == a[2] # 0

Neg(a) == <<-a[1], a[2]>>

\* float addition: nan absorbs, inf + -inf = nan
Add(a, b) ==
    IF IsNaN(a) \/ IsNaN(b) THEN NaN
    ELSE IF ~IsFinite(a) /\ ~IsFinite(b) THEN (IF a = b THEN a ELSE NaN)
    ELSE IF ~IsFinite(a) THEN a
    ELSE IF ~IsFinite(b) THEN b
    ELSE Frac(a[1] * b[2] + b[1] * a[2], a[2] * b[2])

Sub(a, b) == Add(a, Neg(b))

\* float multiplication: inf * 0 = nan
Mul(a, b) == Frac(a[1] * b[1], a[2] * b[2])

\* float division: x / 0 = +-inf, 0 / 0 = nan, x / inf = 0 (a warning, no exception)
Div(a, b) ==
    IF IsNaN(b) THEN NaN
    ELSE IF ~IsFinite(b) THEN (IF IsFinite(a) THEN Zero ELSE NaN)
    ELSE IF b[1] = 0 THEN Mul(a, Inf)
    ELSE Mul(a, Frac(b[2], b[1]))

\* comparisons with nan are false
Less(a, b) == a[1] * b[2] < b[1] * a[2]

RECURSIVE Pow_zero_base(_, _)
\* mutant: a power that starts from the base, so that 0 ** 0 = 0
Pow_zero_base(a, k) ==
    IF a = Zero THEN Zero ELSE IF k = 0 THEN One ELSE Mul(a, Pow_zero_base(a, k - 1))

RECURSIVE Pow(_, _)
\* numpy power with a non-negative integer exponent: x ** 0 = 1 also for x = 0
Pow(a, k) == IF k = 0 THEN One ELSE Mul(a, Pow(a, k - 1))

RECURSIVE ISqrtFrom(_, _)
ISqrtFrom(n, s) == IF (s + 1) * (s + 1) > n THEN s ELSE ISqrtFrom(n, s + 1)

ISqrt(n) == ISqrtFrom(n, 0)

\* ------------------------------------------------------------ collaborators
\* util.as_delayed_signal: (data, samplerate) gets the offset 0; a DelayedSignal keeps its own
as_delayed_signal(signal) ==
    IF signal.kind = "pair"
    THEN [data |-> signal.data, samplerate |-> signal.samplerate, time |-> 0]
    ELSE [data |-> signal.data, samplerate |-> signal.samplerate, time |-> signal.time]

\* util.as_xyz_components: the three coordinate arrays of the grid
GridShape(grid) == <<Len(grid[1]), Len(grid[2]), Len(grid[3])>>

GridSize(grid) == Len(grid[1]) * Len(grid[2]) * Len(grid[3])

\* the grid point of flat index n (1-based, the last axis fastest)
GridPoint(grid, n) ==
    LET nz == Len(grid[3])
        ny == Len(grid[2])
        kz == (n - 1) % nz
        j == ((n - 1) \div nz) % ny
        i == (n - 1) \div (nz * ny)
    IN <<grid[1][i + 1], grid[2][j + 1], grid[3][kz + 1]>>

\* np.linalg.norm(grid - xs) at one grid point
Distance(g, xs) ==
    ISqrt((g[1] - xs[1]) * (g[1] - xs[1]) + (g[2] - xs[2]) * (g[2] - xs[2])
          + (g[3] - xs[3]) * (g[3] - xs[3]))

\* np.arange(len(data)) / samplerate
SampleTimes(data, samplerate) ==
    [i \in 1..Len(data) |-> Frac(i - 1, samplerate)]

\* mutant: np.interp without left=0, right=0, which holds the end values
Interp_hold_ends(x, xp, fp, left, right) ==
    LET n == Len(xp) IN
    IF IsNaN(x) THEN NaN
    ELSE IF Less(x, xp[1]) THEN Int2F(fp[1])
    ELSE IF ~Less(x, xp[n]) THEN Int2F(fp[n])
    ELSE LET j == CHOOSE i \in 1..(n - 1) : ~Less(x, xp[i]) /\ Less(x, xp[i + 1])
             slope == Div(Sub(Int2F(fp[j + 1]), Int2F(fp[j])), Sub(xp[j + 1], xp[j]))
         IN Add(Mul(slope, Sub(x, xp[j])), Int2F(fp[j]))

\* np.interp(x, xp, fp, left, right) for one x and len(xp) >= 1
\* (xp increasing): no extrapolation, the end points belong to the range
Interp(x, xp, fp, left, right) ==
    LET n == Len(xp) IN
    IF IsNaN(x) THEN NaN
    ELSE IF Less(x, xp[1]) THEN left
    ELSE IF Less(xp[n], x) THEN right
    ELSE IF x = xp[n] THEN Int2F(fp[n])
    ELSE LET j == CHOOSE i \in 1..(n - 1) : ~Less(x, xp[i]) /\ Less(x, xp[i + 1])
             slope == Div(Sub(Int2F(fp[j + 1]), Int2F(fp[j])), Sub(xp[j + 1], xp[j]))
         IN Add(Mul(slope, Sub(x, xp[j])), Int2F(fp[j]))

\* -------------------------------------------------------------- results
Raised == [kind |-> "ValueError", shape |-> <<>>, val |-> <<>>]
Scalar0 == [kind |-> "scalar", shape |-> <<>>, val |-> <<Zero>>]
Array(shape, val) == [kind |-> "array", shape |-> shape, val |-> val]

\* ---------------------------------------------------------------- point
\* the speed of sound of one call of point: c, or defs.c when c is None
SpeedOfSound(c, defs_c) == IF c = <<>> THEN defs_c ELSE c[1]

\* the retarded time of grid point g: base_time - delays
RetardedTime(xs, sig, observation_time, g, cc) ==
    Sub(Int2F(observation_time - sig.time), Div(Int2F(Distance(g, xs)), Int2F(cc)))

\* mutant: an inverse-square law
Weight_inverse_square(r) == Div(One, Int2F(r * r))

\* weights = 1 / (4 * np.pi * r), in units of 1/(4*pi): inf at r = 0
Weight(r) == Div(One, Int2F(r))

\* point(xs, signal, observation_time, grid, c) with defs.c = defs_c
point(xs, signal, observation_time, grid, c, defs_c) ==
    LET sig == as_delayed_signal(signal)
        cc == SpeedOfSound(c, defs_c)
        xp == SampleTimes(sig.data, sig.samplerate)
        weights(g) == Weight(Distance(g, xs))
        value(g) == Mul(weights(g),
                        Interp(RetardedTime(xs, sig, observation_time, g, cc),
                               xp, sig.data, Zero, Zero))
    IN IF Len(sig.data) = 0
       THEN Raised   \* np.interp: "array of sample points is empty"
       ELSE Array(GridShape(grid),
                  [n \in 1..GridSize(grid) |-> value(GridPoint(grid, n))])

\* ------------------------------------------------------ image sources
\* util.image_sources_for_box, one axis: the image of index n of a source at x in
\* the box [0, L] (n = 0 is the source itself) and its reflections at the two walls
ImageCoord(x, L, n) == IF n % 2 = 0 THEN n * L + x ELSE (n + 1) * L - x

WallCount(n) ==
    IF n % 2 = 0 THEN <<Abs(n \div 2), Abs(n \div 2)>>
    ELSE <<Abs((n - 1) \div 2), Abs((n + 1) \div 2)>>

\* util.image_sources_for_box(x0, L, max_order): the images with at most max_order
\* reflections in all, each with its reflection count per wall (-x, +x, -y, +y, -z, +z)
image_sources_for_box(x0, L, max_order) ==
    LET m == 2 * max_order + 1
        ix(t) == ((t - 1) % m) - max_order
        iy(t) == (((t - 1) \div m) % m) - max_order
        iz(t) == ((t - 1) \div (m * m)) - max_order
        all == [t \in 1..(m * m * m) |->
                  [pos |-> <<ImageCoord(x0[1], L[1], ix(t)),
                             ImageCoord(x0[2], L[2], iy(t)),
                             ImageCoord(x0[3], L[3], iz(t))>>,
                   order |-> WallCount(ix(t)) \o WallCount(iy(t)) \o WallCount(iz(t)),
                   total |-> Abs(ix(t)) + Abs(iy(t)) + Abs(iz(t))]]
        Kept(im) == im.total <= max_order
    IN IF max_order < 0 THEN <<>> ELSE SelectSeq(all, Kept)

\* -------------------------------------------------- point_image_sources
AllOnes == [w \in 1..6 |-> One]

\* mutant: the default is np.zeros(6)
Coeffs_default_zero(coeffs) == IF coeffs = <<>> THEN [w \in 1..6 |-> Zero] ELSE coeffs

\* coeffs, or np.ones(6) when coeffs is None
Coeffs(coeffs) == IF coeffs = <<>> THEN AllOnes ELSE coeffs

RECURSIVE ProdUpTo(_, _, _)
ProdUpTo(coeffs, order, w) ==
    IF w = 0 THEN One ELSE Mul(ProdUpTo(coeffs, order, w - 1), Pow(coeffs[w], order[w]))

\* mutant: np.prod(coeffs), the order forgotten
source_strength_without_order(coeffs, order) ==
    ProdUpTo(coeffs, [w \in 1..6 |-> 1], 6)

\* np.prod(coeffs ** order, axis=1) for one image
source_strength(coeffs, order) == ProdUpTo(coeffs, order, 6)

\* strength * point(...): a scalar times an array
Scale(strength, field) ==
    IF field.kind # "array" THEN field
    ELSE Array(field.shape, [n \in 1..Len(field.val) |-> Mul(strength, field.val[n])])

\* mutant: p = q instead of p += q
AddField_overwrite(p, q) ==
    IF p.kind = "ValueError" \/ q.kind = "ValueError" THEN Raised
    ELSE IF q.kind = "scalar" THEN p
    ELSE q

\* p += q, p being the int 0 or an array: 0 + array is an array
AddField(p, q) ==
    IF p.kind = "ValueError" \/ q.kind = "ValueError" THEN Raised
    ELSE IF q.kind = "scalar" THEN p
    ELSE IF p.kind = "scalar"
         THEN Array(q.shape, [n \in 1..Len(q.val) |-> Add(Zero, q.val[n])])
         ELSE Array(q.shape, [n \in 1..Len(q.val) |-> Add(p.val[n], q.val[n])])

\* mutant: strength == 0
Contributes_inverted(strength) == strength = Zero

\* strength != 0
Contributes(strength) == strength # Zero

\* one turn of the loop over zip(positions, source_strengths)
LoopBody(p, im, a, defs_c) ==
    LET strength == source_strength(Coeffs(a.coeffs), im.order) IN
    IF Contributes(strength)
    THEN AddField(p, Scale(strength,
                 point(im.pos, a.signal, a.observation_time, a.grid, a.c, defs_c)))
    ELSE p

RECURSIVE LoopFrom(_, _, _, _, _)
\* the loop from image k on; an exception of point ends it
LoopFrom(p, images, k, a, defs_c) ==
    IF k > Len(images) \/ p.kind = "ValueError" THEN p
    ELSE LoopFrom(LoopBody(p, images[k], a, defs_c), images, k + 1, a, defs_c)

\* point_image_sources(x0, signal, observation_time, grid, L, max_order, coeffs, c)
point_image_sources(a, defs_c) ==
    LoopFrom(Scalar0, image_sources_for_box(a.x0, a.L, a.max_order), 1, a, defs_c)

\* ---------------------------------------------------------------- inputs
Samples == {-1, 2}
DataOfLen(n) == [1..n -> Samples]
Datas == UNION {DataOfLen(n) : n \in 0..MaxLen}
Samplerates == {1, 2}
Signals ==
    [kind : {"pair"}, data : Datas, samplerate : Samplerates]
    \cup [kind : {"delayed"}, data : Datas, samplerate : {1}, time : {1}]
Positions == {<<1, 1, 1>>, <<1, 2, 1>>}
\* the source of point_image_sources, inside the room
Sources == {<<1, 1, 1>>}
Grids == {<<<<1, 2, 5>>, <<1, 4>>, <<1>>>>, <<<<2>>, <<1>>, <<1>>>>}
\* the inputs of point_image_sources: fewer, each call sums up to 25 images
ImageSignals == {s \in Signals : s.samplerate = 1}
ImageGrids == {<<<<1, 2, 5>>, <<1>>, <<1>>>>, <<<<2>>, <<1>>, <<1>>>>}
Rooms == {<<3, 3, 3>>}
Times == 0..MaxTime
Orders == (0 - 1)..MaxOrder
Half == Frac(1, 2)
CoeffVectors ==
    {<<>>, AllOnes, <<One, Zero, One, One, One, One>>, <<Half, One, Zero, Half, One, One>>}
\* values of defs.c and of the argument c (<<>> is None)
Speeds == {1, 2}
SpeedArgs == {<<>>, <<2>>}

PointCalls ==
    [fn : {"point"}, xs : Positions, signal : Signals, observation_time : Times,
     grid : Grids, c : SpeedArgs]

ImageCalls ==
    [fn : {"point_image_sources"}, x0 : Sources, signal : ImageSignals,
     observation_time : Times, grid : ImageGrids, L : Rooms, max_order : Orders,
     coeffs : CoeffVectors, c : SpeedArgs]

NoCall == [fn |-> "none"]
NoResult == [kind |-> "none", shape |-> <<>>, val |-> <<>>]

\* ----------------------------------------------------------------- state
VARIABLES
    defs_c,   \* defs.c, the process-wide default speed of sound
    call,     \* the call in progress or just returned, with its arguments
    ret,      \* what the call returned or raised
    pc,       \* "idle", "loop" (in the loop of point_image_sources), "map", "done"
    k,        \* the loop's position in zip(positions, source_strengths)
    p,        \* the loop's accumulator
    images,   \* the loop's positions and order, as image_sources_for_box returned them
    c_used,   \* the speed of sound each call of point made by the loop resolved
    todo,     \* map-reduce: the images not yet summed
    parts     \* map-reduce: the partial sums

vars == <<defs_c, call, ret, pc, images, k, p, c_used, todo, parts>>

loopvars == <<images, k, p, c_used, todo, parts>>

Init ==
    /\ defs_c \in Speeds
    /\ call = NoCall
    /\ ret = NoResult
    /\ pc = "idle"
    /\ images = <<>>
    /\ k = 1
    /\ p = Scalar0
    /\ c_used = <<>>
    /\ todo = {}
    /\ parts = <<Scalar0, Scalar0>>

\* a caller runs point to completion
CallPoint ==
    /\ pc = "idle"
    /\ \E a \in PointCalls :
         /\ call' = a
         /\ ret' = point(a.xs, a.signal, a.observation_time, a.grid, a.c, defs_c)
    /\ pc' = "done"
    /\ UNCHANGED <<defs_c, loopvars>>

\* a caller runs point_image_sources to completion
CallPointImageSources ==
    /\ pc = "idle"
    /\ \E a \in ImageCalls :
         /\ call' = a
         /\ ret' = point_image_sources(a, defs_c)
    /\ pc' = "done"
    /\ UNCHANGED <<defs_c, loopvars>>

\* the caller takes the result
Return ==
    /\ pc = "done"
    /\ call' = NoCall
    /\ ret' = NoResult
    /\ pc' = "idle"
    /\ images' = <<>>
    /\ k' = 1
    /\ p' = Scalar0
    /\ c_used' = <<>>
    /\ todo' = {}
    /\ parts' = <<Scalar0, Scalar0>>
    /\ UNCHANGED defs_c

\* the process sets defs.c between two calls
SetDefsC ==
    /\ pc = "idle"
    /\ \E v \in Speeds \ {defs_c} : defs_c' = v
    /\ UNCHANGED <<call, ret, pc, loopvars>>

Next == CallPoint \/ CallPointImageSources \/ Return \/ SetDefsC

Spec == Init /\ [][Next]_vars

\* ------------------------------------------- the loop, one turn at a time
\* point_image_sources run one loop turn at a time, while the rest of the process
\* (another thread) may set defs.c at any moment
LoopCalls ==
    {a \in ImageCalls :
        /\ a.signal.kind = "pair" /\ a.grid = <<<<2>>, <<1>>, <<1>>>>}

EnterLoop ==
    /\ pc = "idle"
    /\ \E a \in LoopCalls :
         /\ call' = a
         /\ images' = image_sources_for_box(a.x0, a.L, a.max_order)
    /\ pc' = "loop"
    /\ k' = 1
    /\ p' = Scalar0
    /\ c_used' = <<>>
    /\ UNCHANGED <<defs_c, ret, todo, parts>>

LoopTurn ==
    /\ pc = "loop"
    /\ k <= Len(images)
    /\ LET im == images[k]
           q == LoopBody(p, im, call, defs_c)
       IN /\ p' = q
          /\ c_used' = IF Contributes(source_strength(Coeffs(call.coeffs), im.order))
                       THEN Append(c_used, SpeedOfSound(call.c, defs_c))
                       ELSE c_used
          /\ IF q.kind = "ValueError"
             THEN pc' = "done" /\ ret' = q /\ k' = k
             ELSE pc' = "loop" /\ ret' = ret /\ k' = k + 1
    /\ UNCHANGED <<defs_c, call, images, todo, parts>>

LoopExit ==
    /\ pc = "loop"
    /\ k > Len(images)
    /\ ret' = p
    /\ pc' = "done"
    /\ UNCHANGED <<defs_c, call, images, k, p, c_used, todo, parts>>

\* defs.c is a module attribute: any other activity of the process may assign it
SetDefsCAnyTime ==
    /\ \E v \in Speeds \ {defs_c} : defs_c' = v
    /\ UNCHANGED <<call, ret, pc, loopvars>>

NextLoop == EnterLoop \/ LoopTurn \/ LoopExit \/ SetDefsCAnyTime \/ Return

SpecLoop == Init /\ [][NextLoop]_vars

\* ---------------------------------------- the loop, in any order, in groups
\* the summation as a map-reduce: the images are taken in any order, each added to
\* one of two partial sums, and the partial sums are added at the end.  The number
\* of partial-sum states is exponential in the number of images: the orders are
\* kept to those with at most 7 images
MapOrders == {0 - 1, 0, 1}

MapCalls ==
    [fn : {"point_image_sources"}, x0 : Sources,
     signal : [kind : {"pair"}, data : DataOfLen(0) \cup DataOfLen(MaxLen), samplerate : {1}],
     observation_time : {1, MaxTime}, grid : {<<<<1, 2, 5>>, <<1>>, <<1>>>>}, L : Rooms,
     max_order : MapOrders, coeffs : CoeffVectors \ {AllOnes}, c : {<<>>}]

EnterMap ==
    /\ pc = "idle"
    /\ \E a \in MapCalls :
         /\ call' = a
         /\ images' = image_sources_for_box(a.x0, a.L, a.max_order)
         /\ todo' = 1..Len(images')
    /\ pc' = "map"
    /\ parts' = <<Scalar0, Scalar0>>
    /\ UNCHANGED <<defs_c, ret, k, p, c_used>>

MapTurn ==
    /\ pc = "map"
    /\ \E i \in todo, g \in 1..2 :
         /\ parts' = [parts EXCEPT ![g] = LoopBody(parts[g], images[i], call, defs_c)]
         /\ todo' = todo \ {i}
    /\ UNCHANGED <<defs_c, call, ret, pc, images, k, p, c_used>>

Reduce ==
    /\ pc = "map"
    /\ todo = {}
    /\ ret' = AddField(parts[1], parts[2])
    /\ pc' = "done"
    /\ UNCHANGED <<defs_c, call, images, k, p, c_used, todo, parts>>

NextMapReduce == EnterMap \/ MapTurn \/ Reduce \/ Return

SpecMapReduce == Init /\ [][NextMapReduce]_vars

\* ================================================================ claims
IsPointCall == call.fn = "point" /\ pc = "done"
IsImageCall == call.fn = "point_image_sources" /\ pc = "done"
Sig == as_delayed_signal(call.signal)
NSamples == Len(Sig.data)
\* the retarded time of grid point n of a call of point
Tau(n) ==
    RetardedTime(call.xs, Sig, call.observation_time, GridPoint(call.grid, n),
                 SpeedOfSound(call.c, defs_c))
R(n) == Distance(GridPoint(call.grid, n), call.xs)
LastSampleTime == Frac(NSamples - 1, Sig.samplerate)
Before(n) == Less(Tau(n), Zero)
After(n) == Less(LastSampleTime, Tau(n))

\* C1 as stated: in the field point returns, the value of EVERY grid point whose
\* retarded time is strictly before the first sample or strictly after the last one
\* is exactly zero
C1_CausalityEveryPoint ==
    (IsPointCall /\ ret.kind = "array") =>
        \A n \in 1..GridSize(call.grid) : (Before(n) \/ After(n)) => ret.val[n] = Zero

\* C1, amended: the same for every grid point at a distance r > 0 from the source
\* (at r = 0 the weight is inf and the value is inf * 0 = nan)
C1_Causality ==
    (IsPointCall /\ ret.kind = "array") =>
        \A n \in 1..GridSize(call.grid) :
            (R(n) > 0 /\ (Before(n) \/ After(n))) => ret.val[n] = Zero

C1_Witness ==
    /\ IsPointCall /\ ret.kind = "array" /\ NSamples = 2
    /\ \E n \in 1..GridSize(call.grid) : R(n) > 0 /\ Before(n)
    /\ \E n \in 1..GridSize(call.grid) : R(n) > 0 /\ After(n)
    /\ \E n \in 1..GridSize(call.grid) : ret.val[n] \notin {Zero, NaN}

\* C7: point with an empty signal (N = 0) returns a field that is zero at every grid
\* point, rather than raising an error
C7_EmptySignalZeroField ==
    (IsPointCall /\ NSamples = 0) =>
        ret = Array(GridShape(call.grid), [n \in 1..GridSize(call.grid) |-> Zero])

\* C8: what point and point_image_sources return is an array with one entry per
\* grid point, never the scalar 0 the accumulator starts from
C8_FieldShape ==
    (pc = "done" /\ ret.kind # "ValueError") =>
        /\ ret.kind = "array"
        /\ ret.shape = GridShape(call.grid)
        /\ Len(ret.val) = GridSize(call.grid)

\* the linear interpolation of the samples at the times k/samplerate, for a time
\* within [0, (N-1)/samplerate]
SampleAt(j) == Int2F(Sig.data[j + 1])
LinearInterpolation(t) ==
    LET u == Mul(t, Int2F(Sig.samplerate))   \* the time in samples
        k0 == u[1] \div u[2]                 \* the sample at or before it
    IN IF u[2] = 1 THEN SampleAt(k0)
       ELSE Add(SampleAt(k0),
                Mul(Sub(SampleAt(k0 + 1), SampleAt(k0)), Sub(u, Int2F(k0))))

InSupport(n) == ~Before(n) /\ ~After(n)

\* C9: at a grid point at distance r > 0 whose retarded time tau is within
\* [0, (N-1)/samplerate], point returns s(tau) / (4 pi r), s the linear interpolation
\* of the samples; so value * r = s(tau) / (4 pi) whatever r is
C9_GreensFunctionValue ==
    (IsPointCall /\ ret.kind = "array") =>
        \A n \in 1..GridSize(call.grid) :
            (R(n) > 0 /\ InSupport(n)) =>
                /\ ret.val[n] = Div(LinearInterpolation(Tau(n)), Int2F(R(n)))
                /\ Mul(ret.val[n], Int2F(R(n))) = LinearInterpolation(Tau(n))

C9_Witness ==
    /\ IsPointCall /\ ret.kind = "array"
    /\ \E n \in 1..GridSize(call.grid) :
          /\ R(n) > 1 /\ InSupport(n) /\ ret.val[n] # Zero
          /\ Mul(Tau(n), Int2F(Sig.samplerate))[2] # 1   \* between two samples
    /\ \E n \in 1..GridSize(call.grid) :
          /\ R(n) > 0 /\ Tau(n) = LastSampleTime /\ NSamples = 2

\* ------------------------------------------------ point_image_sources
CallImages == image_sources_for_box(call.x0, call.L, call.max_order)
Strength(im) == source_strength(Coeffs(call.coeffs), im.order)
PointOf(pos) ==
    point(pos, call.signal, call.observation_time, call.grid, call.c, defs_c)

RECURSIVE SumOver(_, _, _)
\* the sum of Term(image) over the first n images, the scalar 0 for none
SumOver(Term(_), ims, n) ==
    IF n = 0 THEN Scalar0 ELSE AddField(SumOver(Term, ims, n - 1), Term(ims[n]))

Unweighted(im) == PointOf(im.pos)
Weighted(im) == Scale(Strength(im), PointOf(im.pos))

\* C2: with max_order = 0, point_image_sources returns exactly what point returns
\* for the real source x0, whatever the coefficients are
C2_DegenerateRoom ==
    (IsImageCall /\ call.max_order = 0) => ret = PointOf(call.x0)

C2_Witness ==
    /\ IsImageCall /\ call.max_order = 0 /\ ret.kind = "array"
    /\ \E w \in 1..6 : call.coeffs # <<>> /\ call.coeffs[w] = Zero
    /\ \E n \in 1..GridSize(call.grid) : ret.val[n] \notin {Zero, NaN}

\* C3: with coeffs omitted or all 1.0 every image has strength 1, none is skipped,
\* and the field is the unweighted sum of point over the enumerated images
C3_LosslessSuperposition ==
    (IsImageCall /\ call.coeffs \in {<<>>, AllOnes}) =>
        LET ims == CallImages IN
        /\ \A i \in 1..Len(ims) :
              Strength(ims[i]) = One /\ Contributes(Strength(ims[i]))
        /\ ret = SumOver(Unweighted, ims, Len(ims))

C3_Witness ==
    /\ IsImageCall /\ call.coeffs = <<>> /\ call.max_order = 1 /\ ret.kind = "array"
    /\ Len(CallImages) = 7
    /\ \E n \in 1..GridSize(call.grid) : IsFinite(ret.val[n]) /\ ret.val[n] # Zero

HasZeroWall(im) ==
    \E w \in 1..6 : Coeffs(call.coeffs)[w] = Zero /\ im.order[w] >= 1

OnGrid(im) ==
    \E n \in 1..GridSize(call.grid) : Distance(GridPoint(call.grid, n), im.pos) = 0

\* C4 as stated: the field of the loop that skips the images of strength zero is
\* the field of the loop that adds strength * point(...) for every image, for all
\* inputs, also with an image on a grid point
C4_SkipIsEquivalent ==
    IsImageCall => LET ims == CallImages IN ret = SumOver(Weighted, ims, Len(ims))

\* C4, amended: an image reflected at a wall of coefficient 0 has strength exactly 0
\* and is left out of the sum; the field is that of the loop without the skip
\* whenever no image of strength zero lies on a grid point (there that loop adds
\* 0 * inf = nan)
C4_ZeroSuppression ==
    IsImageCall =>
        LET ims == CallImages IN
        /\ \A i \in 1..Len(ims) :
              HasZeroWall(ims[i]) =>
                  Strength(ims[i]) = Zero /\ ~Contributes(Strength(ims[i]))
        /\ (\A i \in 1..Len(ims) : Strength(ims[i]) = Zero => ~OnGrid(ims[i]))
           => ret = SumOver(Weighted, ims, Len(ims))

C4_Witness ==
    /\ IsImageCall /\ ret.kind = "array" /\ GridSize(call.grid) > 1
    /\ LET ims == CallImages IN
       /\ \E i \in 1..Len(ims) : HasZeroWall(ims[i])
       /\ \A i \in 1..Len(ims) : Strength(ims[i]) = Zero => ~OnGrid(ims[i])
    /\ \E n \in 1..GridSize(call.grid) : ret.val[n] = Inf

IsRealSource(im) == \A w \in 1..6 : im.order[w] = 0
NotRealSource(im) == ~IsRealSource(im)

\* the image's strength with the factor of every wall it does not reflect at left out
StrengthOfReflections(im) ==
    LET Factor(w) == IF im.order[w] = 0 THEN One
                     ELSE Pow(Coeffs(call.coeffs)[w], im.order[w])
    IN Mul(Mul(Mul(Factor(1), Factor(2)), Mul(Factor(3), Factor(4))),
           Mul(Factor(5), Factor(6)))

\* C10: a wall's coefficient, also 0, affects only the images reflected at that wall;
\* the real source is enumerated for every max_order >= 0 with strength exactly 1,
\* and its free-field contribution point(x0, ...) is in the field, unattenuated
C10_RealSourceAlwaysCounts ==
    (IsImageCall /\ call.max_order >= 0) =>
        LET ims == CallImages IN
        /\ \A i \in 1..Len(ims) : Strength(ims[i]) = StrengthOfReflections(ims[i])
        /\ \E i \in 1..Len(ims) :
              /\ IsRealSource(ims[i]) /\ ims[i].pos = call.x0
              /\ Strength(ims[i]) = One /\ Contributes(Strength(ims[i]))
        /\ LET others == SelectSeq(ims, NotRealSource)
           IN ret = AddField(LoopFrom(Scalar0, others, 1, call, defs_c),
                             PointOf(call.x0))

C10_Witness ==
    /\ IsImageCall /\ call.max_order = 1 /\ ret.kind = "array"
    /\ call.coeffs # <<>> /\ call.coeffs[3] = Zero /\ call.coeffs[1] = Half
    /\ \E n \in 1..GridSize(call.grid) : ret.val[n] \notin {Zero, NaN}

\* --------------------------------------------------------- superposition
\* C5: summing the images in any order, and in groups summed apart and then added,
\* gives the field of the loop in the order of the enumeration
C5_OrderIndependence ==
    (IsImageCall /\ todo = {}) => ret = point_image_sources(call, defs_c)

C5_Witness ==
    /\ IsImageCall /\ Len(images) = 7
    /\ parts[1].kind = "array" /\ parts[2].kind = "array" /\ parts[1] # parts[2]
    /\ \E n \in 1..GridSize(call.grid) : IsFinite(ret.val[n]) /\ ret.val[n] # Zero
    /\ \E n \in 1..GridSize(call.grid) : ret.val[n] = Inf

\* C6: every contribution of one call of point_image_sources is evaluated with the
\* same speed of sound, also with c unset, and the call returns what it returns
\* when it runs alone, whatever else the process does meanwhile
C6_SameSpeedOfSound ==
    (IsImageCall /\ c_used # <<>>) =>
        /\ \A i \in 1..Len(c_used) : c_used[i] = c_used[1]
        /\ ret = point_image_sources(call, c_used[1])

====
